---- MODULE Spec2Model ----
(***************************************************************************)
(* Model of src/src/App.jsx: the React component App that manages user     *)
(* segments (segments), the user -> segment ids index (userSegments), and  *)
(* their copies in localStorage.                                           *)
(*                                                                         *)
(* Every handler validates its arguments at once, against the state of     *)
(* the render it was created in, and defers its mutation with setTimeout   *)
(* (500 ms; 1000 ms for handleAssignRandomUsers).  The model keeps the     *)
(* pending timers in scheduling order with their remaining delay in units  *)
(* of 500 ms; Tick lets 500 ms pass and the first due callback runs before *)
(* any later one.  The state updates of a callback are applied in one      *)
(* render;                                                                 *)
(* the useEffect callbacks that follow a render (load, save segments, save *)
(* userSegments) run one at a time, in declaration order, before anything  *)
(* else happens.  No handler tests loading, and the overlay shown while    *)
(* loading (App.jsx:502-512) disables no control: a handler can run while  *)
(* callbacks are pending.                                                  *)
(*                                                                         *)
(* localStorage holds what JSON.parse returns for the item written: the    *)
(* arrays, objects and strings of both collections survive the round trip  *)
(* through JSON.stringify unchanged.                                       *)
(*                                                                         *)
(* Strings that the code trims are sequences of characters.  A user id is  *)
(* a positive integer (the key of the userSegments object); the empty      *)
(* string of an empty input field is EmptyInput.                           *)
(***************************************************************************)
EXTENDS Integers, Sequences, FiniteSets, TLC

\* ---------------------------------------------------------------- bounds
\* Most operations a run accepts (schedules a callback for).
MaxOps == 2
\* Most timers pending at once.
MaxPending == 2
\* allPossibleUserIds is 1..NumCandidates (1000 in App.jsx:179).
NumCandidates == 2
\* userId % HashBuckets (100 in App.jsx:187); percentages run 0..HashBuckets.
HashBuckets == 2

\* ------------------------------------------------------------ input sets
\* What is typed into the name field (the field is required: never empty).
NameInputs == {<<" ">>, <<"a">>, <<"a", " ">>, <<"b">>}

\* What can be typed into the description field.
DescriptionInputs == {<< >>, <<"d", " ">>}

\* Math.random().toString(36).substring(2, 11): up to nine characters of the
\* fraction's base-36 digits; "" when Math.random() returns 0.
GenIds == {"", "s1", "s3"}

\* The value of an empty <input type="number">.
EmptyInput == 0
\* Keys of userSegments: the candidates and one user beyond them.
UserIds == 1..(NumCandidates + 1)
UserIdInputs == {EmptyInput} \cup UserIds

\* parseInt of the percentage field: an integer, or NaN for an empty field.
NaN == -1000
PercentageInputs == {NaN} \cup (-1..(HashBuckets + 1))

\* ---------------------------------------------------------- JS helpers
\* String.prototype.trim
RECURSIVE TrimStart(_)
TrimStart(s) ==
    IF s # << >> /\ Head(s) = " " THEN TrimStart(Tail(s)) ELSE s

RECURSIVE TrimEnd(_)
TrimEnd(s) ==
    IF s # << >> /\ s[Len(s)] = " " THEN TrimEnd(SubSeq(s, 1, Len(s) - 1)) ELSE s

Trim(s) == TrimEnd(TrimStart(s))

\* a < b and a > b of JavaScript numbers: false when either is NaN.
JsLess(a, b) == a # NaN /\ b # NaN /\ a < b
JsGreater(a, b) == a # NaN /\ b # NaN /\ a > b

\* Array.prototype.includes
Includes(arr, x) == \E i \in 1..Len(arr) : arr[i] = x

\* arr.filter(id => id !== x)
Without(arr, x) == SelectSeq(arr, LAMBDA e : e # x)

\* The object {}.
EmptyObject == << >>

\* prev[userId] || []
SegmentsOf(obj, userId) == IF userId \in DOMAIN obj THEN obj[userId] ELSE << >>

\* { ...obj, [userId]: value }
WithKey(obj, userId, value) ==
    [k \in DOMAIN obj \cup {userId} |-> IF k = userId THEN value ELSE obj[k]]

\* delete obj[userId]
DeleteKey(obj, userId) == [k \in DOMAIN obj \ {userId} |-> obj[k]]

\* ------------------------------------------------- the state updaters
\* setSegments(prev => [...prev, newSegment])
AppendSegment(prev, newSegment) == Append(prev, newSegment)

\* MapUpdate that refreshes createdAt as well.
MapUpdateCreated(prev, id, newName, newDescription, time) ==
    [i \in 1..Len(prev) |->
        IF prev[i].id = id
        THEN [prev[i] EXCEPT !.name = Trim(newName),
                             !.description = Trim(newDescription),
                             !.createdAt = time,
                             !.updatedAt = time]
        ELSE prev[i]]

\* setSegments(prev => prev.map(s => s.id === id ? {...s, name, description, updatedAt} : s))
MapUpdate(prev, id, newName, newDescription, time) ==
    [i \in 1..Len(prev) |->
        IF prev[i].id = id
        THEN [prev[i] EXCEPT !.name = Trim(newName),
                             !.description = Trim(newDescription),
                             !.updatedAt = time]
        ELSE prev[i]]

\* setSegments(prev => prev.filter(s => s.id !== id))
FilterSegment(prev, id) == SelectSeq(prev, LAMBDA s : s.id # id)

\* CascadeDelete that drops every user that has id in its list.
CascadeDeleteUsers(prev, id) ==
    [userId \in {u \in DOMAIN prev : ~Includes(prev[u], id)} |-> prev[userId]]

\* The updater of handleDeleteSegment: every user's list without id, the users
\* left with no segment dropped.
CascadeDelete(prev, id) ==
    [userId \in {u \in DOMAIN prev : Without(prev[u], id) # << >>} |->
        Without(prev[userId], id)]

\* AddUser without its test of currentSegments.includes(segmentId).
AddUserAlways(prev, userId, segmentId) ==
    WithKey(prev, userId, Append(SegmentsOf(prev, userId), segmentId))

\* The updater of handleAddUserToSegment.
AddUser(prev, userId, segmentId) ==
    LET currentSegments == SegmentsOf(prev, userId)
    IN  IF ~Includes(currentSegments, segmentId)
        THEN WithKey(prev, userId, Append(currentSegments, segmentId))
        ELSE prev

\* RemoveUser without its delete of the key left with no segment.
RemoveUserKeepingKey(prev, userId, segmentId) ==
    WithKey(prev, userId, Without(SegmentsOf(prev, userId), segmentId))

\* RemoveUser deleting the key whatever is left of its segments.
RemoveUserDroppingKey(prev, userId, segmentId) == DeleteKey(prev, userId)

\* The updater of handleRemoveUserFromSegment.
RemoveUser(prev, userId, segmentId) ==
    LET newSegments == Without(SegmentsOf(prev, userId), segmentId)
    IN  IF Len(newSegments) = 0
        THEN DeleteKey(prev, userId)
        ELSE WithKey(prev, userId, newSegments)

\* const hash = userId % 100
Hash(userId) == userId % HashBuckets

\* AssignOne without its else branch: users outside the percentage stay.
AssignOneAdditive(acc, userId, segmentId, percentage) ==
    LET currentSegments == SegmentsOf(acc.state, userId)
    IN  IF JsLess(Hash(userId), percentage) /\ ~Includes(currentSegments, segmentId)
        THEN [state |-> WithKey(acc.state, userId, Append(currentSegments, segmentId)),
              count |-> acc.count + 1]
        ELSE acc

\* AssignOne without its test of currentSegments.includes(segmentId).
AssignOneAppending(acc, userId, segmentId, percentage) ==
    LET currentSegments == SegmentsOf(acc.state, userId)
    IN  IF JsLess(Hash(userId), percentage)
        THEN [state |-> WithKey(acc.state, userId, Append(currentSegments, segmentId)),
              count |-> acc.count + 1]
        ELSE IF Len(Without(currentSegments, segmentId)) = 0
             THEN [acc EXCEPT !.state = DeleteKey(acc.state, userId)]
             ELSE [acc EXCEPT !.state = WithKey(acc.state, userId,
                                                Without(currentSegments, segmentId))]

\* AssignOne that selects by the hash of the user id plus the number of
\* segments the user is in.
AssignOneByMemberships(acc, userId, segmentId, percentage) ==
    LET currentSegments == SegmentsOf(acc.state, userId)
    IN  IF JsLess(Hash(userId + Len(currentSegments)), percentage)
        THEN IF ~Includes(currentSegments, segmentId)
             THEN [state |-> WithKey(acc.state, userId, Append(currentSegments, segmentId)),
                   count |-> acc.count + 1]
             ELSE acc
        ELSE IF Len(Without(currentSegments, segmentId)) = 0
             THEN [acc EXCEPT !.state = DeleteKey(acc.state, userId)]
             ELSE [acc EXCEPT !.state = WithKey(acc.state, userId,
                                                Without(currentSegments, segmentId))]

\* One iteration of allPossibleUserIds.forEach: acc is the pair of
\* newSegmentsState and assignedCount.
AssignOne(acc, userId, segmentId, percentage) ==
    LET currentSegments == SegmentsOf(acc.state, userId)
    IN  IF JsLess(Hash(userId), percentage)
        THEN IF ~Includes(currentSegments, segmentId)
             THEN [state |-> WithKey(acc.state, userId, Append(currentSegments, segmentId)),
                   count |-> acc.count + 1]
             ELSE acc
        ELSE IF Len(Without(currentSegments, segmentId)) = 0
             THEN [acc EXCEPT !.state = DeleteKey(acc.state, userId)]
             ELSE [acc EXCEPT !.state = WithKey(acc.state, userId,
                                                Without(currentSegments, segmentId))]

\* The forEach over userId .. NumCandidates.
RECURSIVE AssignFrom(_, _, _, _)
AssignFrom(acc, userId, segmentId, percentage) ==
    IF userId > NumCandidates THEN acc
    ELSE AssignFrom(AssignOne(acc, userId, segmentId, percentage),
                    userId + 1, segmentId, percentage)

\* The updater of handleAssignRandomUsers with the count it leaves in
\* assignedCount.
AssignRandom(prev, segmentId, percentage) ==
    AssignFrom([state |-> prev, count |-> 0], 1, segmentId, percentage)

\* ---------------------------------------------------------------- state
VARIABLES
    segments,        \* useState([]): the array of segment records
    userSegments,    \* useState({}): userId -> array of segment ids
    editingSegment,  \* useState(null): << >> or <<the segment being edited>>
    message,         \* useState(''): what showMessage last set
    loading,         \* useState(false)
    timers,          \* the setTimeout callbacks not yet run, in scheduling order
    now,             \* the clock, in units of 500 ms
    effects,         \* the useEffect callbacks of the last render still to run
    queued,          \* << >> or <<the state updates queued by the load effect>>
    accepted,        \* how many operations have been accepted so far
    ran,             \* the callback that ran last: its closure, userSegments and
                     \* segments as it found them, the message it showed, and the
                     \* callback before it
    lookup,          \* UserSegmentLookup: lookupUserId, foundSegments, lookupMessage
    localStorage     \* the items 'segments' and 'userSegments': << >> (no item) or <<value>>

vars == <<segments, userSegments, editingSegment, message, loading, timers, now,
          effects, queued, accepted, ran, lookup, localStorage>>

\* A message is its type, what its text says, and the count the text quotes.
NoMessage == [type |-> "none", text |-> "", count |-> 0]
\* showMessage(msg, type = 'success')
SuccessMessage(text, count) == [type |-> "success", text |-> text, count |-> count]
\* showMessage(msg, 'error')
ErrorMessage(text) == [type |-> "error", text |-> text, count |-> 0]

\* An operation and its arguments.
Call(op, id, userId, percentage) ==
    [op |-> op, id |-> id, userId |-> userId, percentage |-> percentage]

\* No operation.
NoCall == Call("none", "", EmptyInput, 0)

\* The closure of a setTimeout callback and the delay left before it is due.
Timer(op, id, name, description, userId, percentage, rem) ==
    [op |-> op, id |-> id, name |-> name, description |-> description,
     userId |-> userId, percentage |-> percentage, rem |-> rem]

\* setTimeout(..., 500) and setTimeout(..., 1000) in units of 500 ms.
ShortDelay == 1
LongDelay == 2

\* UserSegmentLookup as mounted: useState(''), useState([]), useState('').
\* App defines the component in its body: every render of App mounts it anew.
NoLookup == [userId |-> EmptyInput, found |-> << >>, text |-> ""]

\* What an earlier session of the program can have left in localStorage.
StoredSegment(id, name) ==
    [id |-> id, name |-> name, description |-> << >>, createdAt |-> 0, updatedAt |-> 0]

PriorStorage ==
    { [segments |-> << >>, userSegments |-> << >>],
      [segments |-> << <<StoredSegment("s1", <<"a">>)>> >>,
       userSegments |-> << (1 :> <<"s1">>) >>],
      [segments |-> << <<StoredSegment("s1", <<"a">>), StoredSegment("s2", <<"b">>)>> >>,
       userSegments |-> << (1 :> <<"s2", "s1">>) @@ (2 :> <<"s2">>) @@ (3 :> <<"s1">>) >>] }

\* The first render: both collections empty, the three effects still to run.
Init ==
    /\ segments = << >>
    /\ userSegments = EmptyObject
    /\ editingSegment = << >>
    /\ message = NoMessage
    /\ loading = FALSE
    /\ timers = << >>
    /\ now = 0
    /\ effects = <<"load", "saveSegments", "saveUserSegments">>
    /\ queued = << >>
    /\ accepted = 0
    /\ ran = [call |-> NoCall, before |-> EmptyObject, segments |-> << >>,
              shown |-> NoMessage, last |-> NoCall]
    /\ lookup = NoLookup
    /\ localStorage \in PriorStorage

\* No render or effect is in progress: an event handler or a timer can run.
Idle == effects = << >> /\ queued = << >>

\* ------------------------------------------------------------- effects
\* useEffect(() => {...}, []): read both items, queue both state updates.
LoadEffect ==
    /\ effects # << >> /\ Head(effects) = "load"
    /\ queued' = << [segments |-> IF localStorage.segments = << >> THEN << >>
                                  ELSE localStorage.segments[1],
                     userSegments |-> IF localStorage.userSegments = << >> THEN EmptyObject
                                      ELSE localStorage.userSegments[1]] >>
    /\ effects' = Tail(effects)
    /\ UNCHANGED <<segments, userSegments, editingSegment, message, loading, timers,
                   now, localStorage, accepted, ran>>
    /\ UNCHANGED lookup

\* useEffect(() => localStorage.setItem('segments', JSON.stringify(segments)), [segments])
SaveSegmentsEffect ==
    /\ effects # << >> /\ Head(effects) = "saveSegments"
    /\ localStorage' = [localStorage EXCEPT !.segments = <<segments>>]
    /\ effects' = Tail(effects)
    /\ UNCHANGED <<segments, userSegments, editingSegment, message, loading, timers,
                   now, queued, accepted, ran>>
    /\ UNCHANGED lookup

\* useEffect(() => localStorage.setItem('userSegments', JSON.stringify(userSegments)), [userSegments])
SaveUserSegmentsEffect ==
    /\ effects # << >> /\ Head(effects) = "saveUserSegments"
    /\ localStorage' = [localStorage EXCEPT !.userSegments = <<userSegments>>]
    /\ effects' = Tail(effects)
    /\ UNCHANGED <<segments, userSegments, editingSegment, message, loading, timers,
                   now, queued, accepted, ran>>
    /\ UNCHANGED lookup

\* The render that applies setSegments(storedSegments) and
\* setUserSegments(storedUserSegments); both values are new, both saves follow.
RenderLoaded ==
    /\ effects = << >> /\ queued # << >>
    /\ segments' = queued[1].segments
    /\ userSegments' = queued[1].userSegments
    /\ queued' = << >>
    /\ effects' = <<"saveSegments", "saveUserSegments">>
    /\ UNCHANGED <<editingSegment, message, loading, timers, now, localStorage, accepted, ran>>
    /\ lookup' = NoLookup

\* ------------------------------------------------------ event handlers
\* The ids offered by <select id="segment-select"> and its empty option.
SelectableIds == {segments[i].id : i \in 1..Len(segments)} \cup {""}

\* One more operation fits the model's bounds.
CanSchedule == Len(timers) < MaxPending /\ accepted < MaxOps

\* setLoading(true); setTimeout(callback, delay)
Schedule(timer) ==
    /\ loading' = TRUE
    /\ timers' = Append(timers, timer)
    /\ accepted' = accepted + 1
    /\ UNCHANGED <<segments, userSegments, editingSegment, message, now, effects,
                   queued, localStorage, ran>>
    /\ lookup' = NoLookup

\* Reject after setLoading(true).
RejectLoading(text) ==
    /\ message' = ErrorMessage(text)
    /\ loading' = TRUE
    /\ UNCHANGED <<segments, userSegments, editingSegment, timers, now,
                   effects, queued, localStorage, accepted, ran>>
    /\ lookup' = NoLookup

\* A handler that returns after showMessage(..., 'error').
Reject(text) ==
    /\ message' = ErrorMessage(text)
    /\ UNCHANGED <<segments, userSegments, editingSegment, loading, timers, now,
                   effects, queued, localStorage, accepted, ran>>
    /\ lookup' = NoLookup

\* handleCreateSegment(name, description), submitted from the creation form
\* (shown while editingSegment is null).
HandleCreateSegment(name, description) ==
    /\ Idle /\ editingSegment = << >>
    /\ IF Trim(name) = << >>
       THEN Reject("emptyName")
       ELSE IF \E i \in 1..Len(segments) : segments[i].name = name
       THEN Reject("duplicateName")
       ELSE /\ CanSchedule
            /\ Schedule(Timer("create", "", name, description, EmptyInput, 0, ShortDelay))

\* onEdit={setEditingSegment}: the edit button of a listed segment.
EditSegment(i) ==
    /\ Idle /\ i \in 1..Len(segments)
    /\ editingSegment' = <<segments[i]>>
    /\ UNCHANGED <<segments, userSegments, message, loading, timers, now, effects,
                   queued, localStorage, accepted, ran>>
    /\ lookup' = NoLookup

\* onCancel={() => setEditingSegment(null)}
CancelEdit ==
    /\ Idle /\ editingSegment # << >>
    /\ editingSegment' = << >>
    /\ UNCHANGED <<segments, userSegments, message, loading, timers, now, effects,
                   queued, localStorage, accepted, ran>>
    /\ lookup' = NoLookup

\* handleUpdateSegment(editingSegment.id, newName, newDescription), submitted
\* from the edit form (shown while editingSegment is set).
HandleUpdateSegment(newName, newDescription) ==
    /\ Idle /\ editingSegment # << >>
    /\ LET id == editingSegment[1].id
       IN  IF Trim(newName) = << >>
           THEN Reject("emptyName")
           ELSE IF \E i \in 1..Len(segments) :
                       segments[i].name = newName /\ segments[i].id # id
           THEN Reject("duplicateName")
           ELSE /\ CanSchedule
                /\ Schedule(Timer("update", id, newName, newDescription, EmptyInput, 0,
                                  ShortDelay))

\* handleDeleteSegment(segment.id, segment.name): the delete button of a listed
\* segment; confirmed is the answer to window.confirm.
HandleDeleteSegment(i, confirmed) ==
    /\ Idle /\ i \in 1..Len(segments)
    /\ IF confirmed
       THEN /\ CanSchedule
            /\ Schedule(Timer("delete", segments[i].id, segments[i].name, << >>,
                              EmptyInput, 0, ShortDelay))
       ELSE UNCHANGED vars

\* handleAddUserToSegment(userId, selectedSegmentId)
HandleAddUserToSegment(userId, segmentId) ==
    /\ Idle
    /\ IF userId = EmptyInput \/ segmentId = ""
       THEN Reject("missingUserOrSegment")
       ELSE /\ CanSchedule
            /\ Schedule(Timer("add", segmentId, << >>, << >>, userId, 0, ShortDelay))

\* handleRemoveUserFromSegment(userId, selectedSegmentId)
HandleRemoveUserFromSegment(userId, segmentId) ==
    /\ Idle
    /\ IF userId = EmptyInput \/ segmentId = ""
       THEN Reject("missingUserOrSegment")
       ELSE /\ CanSchedule
            /\ Schedule(Timer("remove", segmentId, << >>, << >>, userId, 0, ShortDelay))

\* handleAssignRandomUsers(selectedSegmentId, percentage)
HandleAssignRandomUsers(segmentId, percentage) ==
    /\ Idle
    /\ IF segmentId = ""
       THEN Reject("noSegmentSelected")
       ELSE IF JsLess(percentage, 0) \/ JsGreater(percentage, HashBuckets)
       THEN Reject("badPercentage")
       ELSE /\ CanSchedule
            /\ Schedule(Timer("assign", segmentId, << >>, << >>, EmptyInput, percentage,
                              LongDelay))

\* setTimeout(() => setMessage(''), 3000) of showMessage: some time after a
\* message was shown, a timer clears whatever message is shown then.
ClearMessage ==
    /\ Idle /\ message # NoMessage
    /\ message' = NoMessage
    /\ UNCHANGED <<segments, userSegments, editingSegment, loading, timers, now,
                   effects, queued, localStorage, accepted, ran>>
    /\ lookup' = NoLookup

\* The segments of the ids of userSegmentsIds, in the order of userSegmentsIds.
SegmentsInAddedOrder(segs, userSegmentsIds) ==
    LET RECURSIVE From(_)
        From(k) == IF k > Len(userSegmentsIds) THEN << >>
                   ELSE SelectSeq(segs, LAMBDA s : s.id = userSegmentsIds[k]) \o From(k + 1)
    IN  From(1)

\* segments.filter(s => userSegmentsIds.includes(s.id))
SegmentsForUser(segs, userSegmentsIds) ==
    SelectSeq(segs, LAMBDA s : Includes(userSegmentsIds, s.id))

\* handleLookup of UserSegmentLookup, with lookupUserId as typed; the component
\* renders, App does not.
HandleLookup(lookupUserId) ==
    /\ Idle
    /\ lookup' =
           IF lookupUserId = EmptyInput
           THEN [userId |-> lookupUserId, found |-> << >>, text |-> "enterUserId"]
           ELSE IF Len(SegmentsOf(userSegments, lookupUserId)) = 0
           THEN [userId |-> lookupUserId, found |-> << >>, text |-> "inNoSegment"]
           ELSE [userId |-> lookupUserId,
                 found |-> SegmentsForUser(segments, SegmentsOf(userSegments, lookupUserId)),
                 text |-> ""]
    /\ UNCHANGED <<segments, userSegments, editingSegment, message, loading, timers,
                   now, effects, queued, accepted, ran, localStorage>>

\* --------------------------------------------------------------- timers
\* 500 ms pass while callbacks are pending; those that are due run before
\* more time passes.
Tick ==
    /\ Idle /\ timers # << >>
    /\ \A i \in 1..Len(timers) : timers[i].rem > 0
    /\ now' = now + 1
    /\ timers' = [i \in 1..Len(timers) |-> [timers[i] EXCEPT !.rem = @ - 1]]
    /\ UNCHANGED <<segments, userSegments, editingSegment, message, loading, effects,
                   queued, localStorage, accepted, ran>>
    /\ UNCHANGED lookup

\* Some callback is due.
HasDue == \E i \in 1..Len(timers) : timers[i].rem = 0

\* The position of the callback to run: the first that is due.
DueIndex == CHOOSE i \in 1..Len(timers) :
                /\ timers[i].rem = 0
                /\ \A j \in 1..(i - 1) : timers[j].rem # 0

\* The callback to run.
Due == timers[DueIndex]

\* The record of the due callback's run, which shows the message shown.
RanDue(shown) ==
    [call |-> Call(Due.op, Due.id, Due.userId, Due.percentage),
     before |-> userSegments, segments |-> segments, shown |-> shown,
     last |-> ran.call]

\* The timers left once the due callback has run.
TimersAfterDue == [i \in 1..(Len(timers) - 1) |->
                      IF i < DueIndex THEN timers[i] ELSE timers[i + 1]]

\* The callback of handleCreateSegment; id is the result of generateId().
CreateCallback(id) ==
    /\ Idle /\ HasDue /\ Due.op = "create"
    /\ segments' = AppendSegment(segments,
                       [id |-> id, name |-> Trim(Due.name),
                        description |-> Trim(Due.description),
                        createdAt |-> now, updatedAt |-> now])
    /\ message' = SuccessMessage("created", 0)
    /\ loading' = FALSE
    /\ timers' = TimersAfterDue
    /\ ran' = RanDue(message')
    /\ effects' = <<"saveSegments">>
    /\ UNCHANGED <<userSegments, editingSegment, now, queued, localStorage, accepted>>
    /\ lookup' = NoLookup

\* The callback of handleUpdateSegment.
UpdateCallback ==
    /\ Idle /\ HasDue /\ Due.op = "update"
    /\ segments' = MapUpdate(segments, Due.id, Due.name, Due.description, now)
    /\ editingSegment' = << >>
    /\ message' = SuccessMessage("updated", 0)
    /\ loading' = FALSE
    /\ timers' = TimersAfterDue
    /\ ran' = RanDue(message')
    /\ effects' = <<"saveSegments">>
    /\ UNCHANGED <<userSegments, now, queued, localStorage, accepted>>
    /\ lookup' = NoLookup

\* DeleteCallback without its two state updates.
DeleteCallbackMessageOnly ==
    /\ Idle /\ HasDue /\ Due.op = "delete"
    /\ message' = SuccessMessage("deleted", 0)
    /\ loading' = FALSE
    /\ timers' = TimersAfterDue
    /\ ran' = RanDue(message')
    /\ effects' = << >>
    /\ UNCHANGED <<segments, userSegments, editingSegment, now, queued, localStorage,
                   accepted>>
    /\ lookup' = NoLookup

\* The callback of handleDeleteSegment.
DeleteCallback ==
    /\ Idle /\ HasDue /\ Due.op = "delete"
    /\ segments' = FilterSegment(segments, Due.id)
    /\ userSegments' = CascadeDelete(userSegments, Due.id)
    /\ message' = SuccessMessage("deleted", 0)
    /\ loading' = FALSE
    /\ timers' = TimersAfterDue
    /\ ran' = RanDue(message')
    /\ effects' = <<"saveSegments", "saveUserSegments">>
    /\ UNCHANGED <<editingSegment, now, queued, localStorage, accepted>>
    /\ lookup' = NoLookup

\* The callback of handleAddUserToSegment; the updater returns prev itself
\* when the user is already in the segment, and then no save follows.
AddCallback ==
    /\ Idle /\ HasDue /\ Due.op = "add"
    /\ userSegments' = AddUser(userSegments, Due.userId, Due.id)
    /\ message' = SuccessMessage("added", 0)
    /\ loading' = FALSE
    /\ timers' = TimersAfterDue
    /\ ran' = RanDue(message')
    /\ effects' = IF Includes(SegmentsOf(userSegments, Due.userId), Due.id)
                  THEN << >> ELSE <<"saveUserSegments">>
    /\ UNCHANGED <<segments, editingSegment, now, queued, localStorage, accepted>>
    /\ lookup' = NoLookup

\* The callback of handleRemoveUserFromSegment.
RemoveCallback ==
    /\ Idle /\ HasDue /\ Due.op = "remove"
    /\ userSegments' = RemoveUser(userSegments, Due.userId, Due.id)
    /\ message' = SuccessMessage("removed", 0)
    /\ loading' = FALSE
    /\ timers' = TimersAfterDue
    /\ ran' = RanDue(message')
    /\ effects' = <<"saveUserSegments">>
    /\ UNCHANGED <<segments, editingSegment, now, queued, localStorage, accepted>>
    /\ lookup' = NoLookup

\* The values assignedCount can have when showMessage reads it, right after
\* setUserSegments(updater): React runs the updater at the call when the
\* component has no other update queued and otherwise during the next render,
\* so the variable holds the updater's count or still 0.
ReportedCounts(count) == {count, 0}

\* The callback of handleAssignRandomUsers.
AssignCallback(reported) ==
    /\ Idle /\ HasDue /\ Due.op = "assign"
    /\ LET result == AssignRandom(userSegments, Due.id, Due.percentage)
       IN  /\ reported \in ReportedCounts(result.count)
           /\ userSegments' = result.state
           /\ message' = SuccessMessage("assigned", reported)
    /\ loading' = FALSE
    /\ timers' = TimersAfterDue
    /\ ran' = RanDue(message')
    /\ effects' = <<"saveUserSegments">>
    /\ UNCHANGED <<segments, editingSegment, now, queued, localStorage, accepted>>
    /\ lookup' = NoLookup

\* ------------------------------------------------------- specification
Next ==
    \/ LoadEffect
    \/ SaveSegmentsEffect
    \/ SaveUserSegmentsEffect
    \/ RenderLoaded
    \/ \E name \in NameInputs, description \in DescriptionInputs :
           HandleCreateSegment(name, description)
    \/ \E i \in 1..Len(segments) : EditSegment(i)
    \/ CancelEdit
    \/ \E newName \in NameInputs, newDescription \in DescriptionInputs :
           HandleUpdateSegment(newName, newDescription)
    \/ \E i \in 1..Len(segments), confirmed \in BOOLEAN : HandleDeleteSegment(i, confirmed)
    \/ \E userId \in UserIdInputs, segmentId \in SelectableIds :
           HandleAddUserToSegment(userId, segmentId)
    \/ \E userId \in UserIdInputs, segmentId \in SelectableIds :
           HandleRemoveUserFromSegment(userId, segmentId)
    \/ \E segmentId \in SelectableIds, percentage \in PercentageInputs :
           HandleAssignRandomUsers(segmentId, percentage)
    \/ ClearMessage
    \/ Tick
    \/ \E id \in GenIds : CreateCallback(id)
    \/ UpdateCallback
    \/ DeleteCallback
    \/ AddCallback
    \/ RemoveCallback
    \/ \E reported \in 0..NumCandidates : AssignCallback(reported)

Spec == Init /\ [][Next]_vars

\* The lookups of UserSegmentLookup among the operations that create and
\* delete segments and change memberships.
NextLookup ==
    \/ LoadEffect
    \/ SaveSegmentsEffect
    \/ SaveUserSegmentsEffect
    \/ RenderLoaded
    \/ \E name \in NameInputs, description \in DescriptionInputs :
           HandleCreateSegment(name, description)
    \/ \E i \in 1..Len(segments), confirmed \in BOOLEAN : HandleDeleteSegment(i, confirmed)
    \/ \E userId \in UserIdInputs, segmentId \in SelectableIds :
           HandleAddUserToSegment(userId, segmentId)
    \/ \E userId \in UserIdInputs, segmentId \in SelectableIds :
           HandleRemoveUserFromSegment(userId, segmentId)
    \/ \E segmentId \in SelectableIds, percentage \in PercentageInputs :
           HandleAssignRandomUsers(segmentId, percentage)
    \/ \E lookupUserId \in UserIdInputs : HandleLookup(lookupUserId)
    \/ Tick
    \/ \E id \in GenIds : CreateCallback(id)
    \/ DeleteCallback
    \/ AddCallback
    \/ RemoveCallback
    \/ \E reported \in 0..NumCandidates : AssignCallback(reported)

SpecLookup == Init /\ [][NextLookup]_vars

\* =============================================================== claims
\* The ids of the segments in the store.
LiveIds(segs) == {segs[i].id : i \in 1..Len(segs)}

\* The segment ids found in the membership sets of an index.
MemberIds(obj) == UNION {{obj[u][i] : i \in 1..Len(obj[u])} : u \in DOMAIN obj}

\* userId is a member of segmentId in the index obj.
IsMember(obj, userId, segmentId) == Includes(SegmentsOf(obj, userId), segmentId)


\* C1: no two segments of the store have the same name.
C1_UniqueNames ==
    \A i, j \in 1..Len(segments) : i # j => segments[i].name # segments[j].name

\* C2: every segment id in a user's membership set is the id of a segment of
\* the store.
C2_MembershipsAreLive == MemberIds(userSegments) \subseteq LiveIds(segments)

\* C3: once the callback of deleteSegment(id) has run, and until the next
\* callback runs, neither in memory nor in localStorage is id gone from the
\* segments while a membership set still holds it, or gone from the membership
\* sets that held it while the segment is still listed.
C3_DeleteIsAtomic ==
    LET storedSegments == IF localStorage.segments = << >> THEN << >>
                          ELSE localStorage.segments[1]
        storedUserSegments == IF localStorage.userSegments = << >> THEN EmptyObject
                              ELSE localStorage.userSegments[1]
        id == ran.call.id
    IN  ran.call.op = "delete" =>
            /\ id \notin LiveIds(segments) => id \notin MemberIds(userSegments)
            /\ id \notin LiveIds(storedSegments) => id \notin MemberIds(storedUserSegments)
            /\ (id \in MemberIds(ran.before) /\ id \notin MemberIds(storedUserSegments))
                   => id \notin LiveIds(storedSegments)

\* C4: at most one operation is validated and not yet applied.
C4_NoInterleaving == Len(timers) <= 1

\* C5: no user id of the index maps to an empty membership set.
C5_NoEmptySets == \A userId \in DOMAIN userSegments : userSegments[userId] # << >>

\* A callback has removed the last segment of a user, whose key is gone.
C5_Witness ==
    /\ ran.call.op \in {"remove", "delete", "assign"}
    /\ \E userId \in DOMAIN ran.before : userId \notin DOMAIN userSegments

\* The callback of removeUserFromSegment(u, s) runs right after the callback of
\* addUserToSegment(u, s).
RemoveFollowsAdd ==
    /\ RemoveCallback
    /\ ran.call = Call("add", Due.id, Due.userId, 0)

\* C6 as stated: addUserToSegment(u, s) followed by removeUserFromSegment(u, s)
\* leaves the index as it was before the add, with no key u if u had no other
\* membership.
C6_RoundTripAlways ==
    [][RemoveFollowsAdd =>
          /\ userSegments' = ran.before
          /\ Without(SegmentsOf(ran.before, Due.userId), Due.id) = << >>
                 => Due.userId \notin DOMAIN userSegments']_vars

\* C6 amended: the same, for a user u that was not a member of s before the add.
C6_RoundTrip ==
    [][(RemoveFollowsAdd /\ ~IsMember(ran.before, Due.userId, Due.id)) =>
          /\ userSegments' = ran.before
          /\ Without(SegmentsOf(ran.before, Due.userId), Due.id) = << >>
                 => Due.userId \notin DOMAIN userSegments']_vars

\* A remove has run right after the add of the same user, who had other
\* memberships, to the same segment, which the remove found added.
C6_Witness ==
    /\ ran.call.op = "remove"
    /\ ran.last = Call("add", ran.call.id, ran.call.userId, 0)
    /\ Len(SegmentsOf(ran.before, ran.call.userId)) > 1
    /\ SegmentsOf(ran.before, ran.call.userId)[Len(SegmentsOf(ran.before, ran.call.userId))]
           = ran.call.id
    /\ ~IsMember(userSegments, ran.call.userId, ran.call.id)

\* The candidate user ids of assignRandomUsers.
Candidates == 1..NumCandidates

\* The users that the last callback made members of its segment.
NewlyAdded ==
    {u \in UserIds : ~IsMember(ran.before, u, ran.call.id)
                     /\ IsMember(userSegments, u, ran.call.id)}

\* C7: the callback of addUserToSegment or assignRandomUsers for an id that is
\* the id of no segment of the store reports an error and leaves the index as
\* it found it.
C7_UnknownSegmentRejected ==
    (ran.call.op \in {"add", "assign"} /\ ran.call.id \notin LiveIds(segments)) =>
        (ran.shown.type = "error" /\ userSegments = ran.before)

\* C8: once assignRandomUsers(s, p) with p in 0..HashBuckets has run, the
\* candidates that are members of s are exactly those whose hash is below p:
\* none for p = 0, all for p = HashBuckets.
C8_AssignSetsMembership ==
    (ran.call.op = "assign" /\ ran.call.percentage \in 0..HashBuckets) =>
        /\ \A u \in Candidates :
               IsMember(userSegments, u, ran.call.id) <=> Hash(u) < ran.call.percentage
        /\ ran.call.percentage = 0 =>
               \A u \in Candidates : ~IsMember(userSegments, u, ran.call.id)
        /\ ran.call.percentage = HashBuckets =>
               \A u \in Candidates : IsMember(userSegments, u, ran.call.id)

\* An assignment has run that added a candidate and removed another.
C8_Witness ==
    /\ ran.call.op = "assign" /\ ran.call.percentage \in 1..(HashBuckets - 1)
    /\ \E u \in Candidates :
           ~IsMember(ran.before, u, ran.call.id) /\ IsMember(userSegments, u, ran.call.id)
    /\ \E u \in Candidates :
           IsMember(ran.before, u, ran.call.id) /\ ~IsMember(userSegments, u, ran.call.id)

\* C9: the count that assignRandomUsers reports is the number of users it made
\* members; run right after the same assignment, it changes nothing and
\* reports 0.
C9_AssignTwice ==
    ran.call.op = "assign" =>
        /\ ran.shown.count = Cardinality(NewlyAdded)
        /\ ran.last = ran.call => (userSegments = ran.before /\ ran.shown.count = 0)

\* C10: addUserToSegment(u, s), and removeUserFromSegment(u, s), run right
\* after the same operation changes nothing and reports success.
C10_Idempotent ==
    (ran.call.op \in {"add", "remove"} /\ ran.last = ran.call) =>
        (userSegments = ran.before /\ ran.shown.type = "success")

\* An add has run right after the same add, of a member of the segment.
C10_Witness ==
    /\ ran.call.op = "add" /\ ran.last = ran.call
    /\ IsMember(userSegments, ran.call.userId, ran.call.id)

\* C11: once the callback of deleteSegment(id) has run, and as long as no
\* segment is created after it, no lookup returns a segment with that id.
C11_DeletedNotFound ==
    \A i \in 1..Len(lookup.found) :
        /\ ran.call.op = "delete" => lookup.found[i].id # ran.call.id
        /\ (ran.last.op = "delete" /\ ran.call.op # "create")
               => lookup.found[i].id # ran.last.id

\* After the deletion of a segment, the lookup of a user that was a member of
\* it and of another segment has returned the other one.
C11_Witness ==
    /\ ran.call.op = "delete"
    /\ lookup.userId \in UserIds
    /\ IsMember(ran.before, lookup.userId, ran.call.id)
    /\ lookup.found # << >>

\* C12: the callback of updateSegment or deleteSegment for an id that is the
\* id of no segment of the store reports an error and leaves both collections
\* as it found them.
C12_NotFoundRejected ==
    (ran.call.op \in {"update", "delete"} /\ ran.call.id \notin LiveIds(ran.segments)) =>
        /\ ran.shown.type = "error"
        /\ segments = ran.segments
        /\ userSegments = ran.before

\* C13: no assignRandomUsers is accepted, and none changes the index, with a
\* percentage that is not a number of 0..HashBuckets.
C13_PercentageValidated ==
    /\ \A i \in 1..Len(timers) :
           timers[i].op = "assign" => timers[i].percentage \in 0..HashBuckets
    /\ (ran.call.op = "assign" /\ ran.call.percentage \notin 0..HashBuckets)
           => userSegments = ran.before

\* C14: until the first callback runs, no step replaces an item of
\* localStorage with a different value.
C14_StartupKeepsStorage ==
    [][(ran.call = NoCall /\ ran'.call = NoCall) =>
          /\ localStorage.segments # << >>
                 => localStorage'.segments = localStorage.segments
          /\ localStorage.userSegments # << >>
                 => localStorage'.userSegments = localStorage.userSegments]_vars

\* A handler shows an error: showMessage(..., 'error') is called by the failing
\* checks of the handlers (App.jsx:51, :55, :76, :80, :126, :146, :169, :173)
\* and nowhere else.
ShowsError == message' # message /\ message'.type = "error"

\* C15: a handler whose validation fails changes neither collection nor its
\* persisted copy, and schedules nothing: no timer, no loading, no effect.
C15_FailedValidationChangesNothing ==
    [][ShowsError =>
          /\ UNCHANGED <<segments, userSegments, localStorage>>
          /\ UNCHANGED <<timers, loading, effects, queued, accepted>>]_vars

\* A call has failed its validation while a callback was pending and the
\* collections were not empty.
C15_Witness ==
    /\ message.type = "error"
    /\ timers # << >>
    /\ segments # << >> /\ userSegments # EmptyObject

\* The candidates that are members of the segment id in the index obj.
CandidateMembers(obj, id) == {u \in Candidates : IsMember(obj, u, id)}

\* C16: once assignRandomUsers(B, p) has run right after
\* assignRandomUsers(A, p), the same candidates are members of A and of B.
C16_SamePercentageSameMembers ==
    (/\ ran.call.op = "assign" /\ ran.last.op = "assign"
     /\ ran.call.percentage = ran.last.percentage) =>
        CandidateMembers(userSegments, ran.last.id)
            = CandidateMembers(userSegments, ran.call.id)

\* Two assignments with the same percentage have run for two segments; the
\* second found other candidates in its segment than in the first's, and
\* selected some candidates and not others.
C16_Witness ==
    /\ ran.call.op = "assign" /\ ran.last.op = "assign"
    /\ ran.call.percentage = ran.last.percentage
    /\ ran.call.id # ran.last.id
    /\ CandidateMembers(ran.before, ran.call.id) # CandidateMembers(ran.before, ran.last.id)
    /\ CandidateMembers(userSegments, ran.call.id) \notin {{}, Candidates}

\* C17: the segment that createSegment appends has an id that is not empty
\* and is the id of no segment that the store already holds.
C17_FreshIds ==
    ran.call.op = "create" =>
        /\ segments[Len(segments)].id # ""
        /\ segments[Len(segments)].id \notin LiveIds(ran.segments)

\* C18: once the callback of updateSegment(id, ...) has run, the store has as
\* many segments as before, each with the id and createdAt it had at its
\* position, those with another id are as they were, and the index is as it
\* was.
C18_UpdateFrame ==
    ran.call.op = "update" =>
        /\ Len(segments) = Len(ran.segments)
        /\ \A i \in 1..Len(segments) :
               /\ segments[i].id = ran.segments[i].id
               /\ segments[i].createdAt = ran.segments[i].createdAt
               /\ ran.segments[i].id # ran.call.id => segments[i] = ran.segments[i]
        /\ userSegments = ran.before

\* An update has changed a segment of a store of several segments, created
\* earlier, with users in the index.
C18_Witness ==
    /\ ran.call.op = "update"
    /\ Len(segments) > 1
    /\ \E i \in 1..Len(segments) :
           segments[i] # ran.segments[i] /\ segments[i].updatedAt > segments[i].createdAt
    /\ userSegments # EmptyObject

\* The positions in the store of the segments whose ids are in the list ids.
PositionsOf(segs, ids) == {i \in 1..Len(segs) : Includes(ids, segs[i].id)}

\* C19: the lookup of a user has found the segments of the store whose ids
\* are in the user's list, each once, as the store's records, in the store's
\* order.
C19_LookupReturnsLiveSegments ==
    lookup.userId \in UserIds =>
        LET P == PositionsOf(segments, SegmentsOf(userSegments, lookup.userId))
        IN  /\ Len(lookup.found) = Cardinality(P)
            /\ \A k \in 1..Len(lookup.found) :
                   \E i \in P : /\ Cardinality({j \in P : j < i}) = k - 1
                                /\ lookup.found[k] = segments[i]

\* A lookup has found two segments, the first of which the user's list holds
\* after the second.
C19_Witness ==
    /\ lookup.userId \in UserIds
    /\ Len(lookup.found) = 2
    /\ lookup.found[1].id # lookup.found[2].id
    /\ SegmentsOf(userSegments, lookup.userId)[1] = lookup.found[2].id

\* C20: no list of the index holds a segment id twice.
C20_NoDuplicateMemberships ==
    \A userId \in DOMAIN userSegments :
        \A i, j \in 1..Len(userSegments[userId]) :
            i # j => userSegments[userId][i] # userSegments[userId][j]

\* An assignment has selected a candidate that was a member of its segment
\* already and of another segment.
C20_Witness ==
    /\ ran.call.op = "assign"
    /\ \E u \in Candidates :
           /\ IsMember(ran.before, u, ran.call.id)
           /\ IsMember(userSegments, u, ran.call.id)
           /\ Len(SegmentsOf(userSegments, u)) > 1

\* C21: once the callback of a membership operation on segment s, or of
\* deleteSegment(s), has run, every user is a member of every other segment
\* exactly if it was before; after addUserToSegment and removeUserFromSegment
\* for user u the list of every other user is as it was.
C21_MembershipFrame ==
    ran.call.op \in {"add", "remove", "assign", "delete"} =>
        /\ \A u \in DOMAIN ran.before \cup DOMAIN userSegments :
               \A t \in (MemberIds(ran.before) \cup MemberIds(userSegments)) \ {ran.call.id} :
                   IsMember(userSegments, u, t) <=> IsMember(ran.before, u, t)
        /\ ran.call.op \in {"add", "remove"} =>
               \A u \in (DOMAIN ran.before \cup DOMAIN userSegments) \ {ran.call.userId} :
                   SegmentsOf(userSegments, u) = SegmentsOf(ran.before, u)

\* A callback has taken a user out of its segment, and the user is still in
\* another segment.
C21_Witness ==
    /\ ran.call.op \in {"remove", "assign", "delete"}
    /\ \E u \in DOMAIN userSegments :
           /\ IsMember(ran.before, u, ran.call.id)
           /\ ~IsMember(userSegments, u, ran.call.id)
           /\ \E t \in MemberIds(userSegments) : t # ran.call.id /\ IsMember(userSegments, u, t)

\* C22: loading is true exactly while a scheduled callback has not run.
C22_LoadingIffPending == loading <=> timers # << >>

====
